---- MODULE Spec2Model ----
(***************************************************************************)
(* The login end-to-end suite: the LoginPage page object, the              *)
(* LoginDataFactory and the four scenarios of login.spec.ts, run by the    *)
(* test runner against the login form of the application under test.       *)
(*                                                                         *)
(* Two specifications share the state and the page-object steps:           *)
(*   Spec        the suite as the runner executes it (beforeEach + test).  *)
(*   SpecClient  one LoginPage driven by an arbitrary sequential caller,   *)
(*               for the statements made about the page object's API for   *)
(*               any argument.                                             *)
(* The automation engine and the application are external collaborators:   *)
(* every engine operation on an element either completes or is aborted by  *)
(* the engine's timeout.                                                   *)
(***************************************************************************)
EXTENDS Naturals, FiniteSets, Sequences, TLC

VARIABLES
    env,           \* process.env: the configured keys and their values
    pages,         \* the browser pages/sessions handed out by the runner
    nextPage,      \* the next fresh page the runner hands to a test
    loginPage,     \* per worker: the describe-scoped `let loginPage`
    wtest,         \* per worker: the scenario it is running
    wpage,         \* per worker: the `page` fixture of that scenario
    pc,            \* per worker: position in beforeEach / test body / login
    frame,         \* per worker: the activation of LoginPage.login
    inflight,      \* per worker: engine operations issued and not yet settled
    ret,           \* per worker: value the last settled operation resolved to
    outcome,       \* per worker: what the caller observed (pass / error class)
    validLog,      \* the records validCredentials() returned, in call order
    last           \* per worker: the last settled page-object operation

vars == <<env, pages, nextPage, loginPage, wtest, wpage, pc, frame, inflight,
          ret, outcome, validLog, last>>

-----------------------------------------------------------------------------
(* Bounds of the model *)

\* Pages (hence scenarios) the runner hands out in one run.
MaxPages == 3

\* Worker processes of the runner; each loads login.spec.ts on its own.
Workers == {"w1", "w2"}

\* The worker that plays the caller in SpecClient.
ClientWorker == "w1"

PageIds == 1..MaxPages

-----------------------------------------------------------------------------
(* JavaScript values: a string, or undefined *)

Undefined == [type |-> "undefined"]

JSString(s) == [type |-> "string", value |-> s]

JSBoolean(b) == [type |-> "boolean", value |-> b]

IsString(v) == v.type = "string"

-----------------------------------------------------------------------------
(* Configuration *)

EnvKeys == {"VALID_USERNAME", "VALID_USER_PASSWORD"}

\* The .env the README prescribes.
DotEnv == [k \in EnvKeys |->
             IF k = "VALID_USERNAME" THEN "standard_user" ELSE "secret_sauce"]

\* process.env.KEY: the value, or undefined for a key that is not set.
ProcessEnv(key) == IF key \in DOMAIN env THEN JSString(env[key]) ELSE Undefined

ConfigPresent == DOMAIN env = EnvKeys

-----------------------------------------------------------------------------
(* LoginDataFactory.  Each producer is the set of records one call can     *)
(* return.                                                                 *)

\* What faker.internet.userName() / faker.internet.password() can produce:
\* never empty, and the password is 15 characters long.
FakerUserNames == {"Jane_Doe", "Kiel.Ray42"}
FakerPasswords == {"Xy7pQ2mK4vN8sR1"}

invalidCredentials ==
    { [username |-> JSString(u), password |-> JSString(p)] :
        u \in FakerUserNames, p \in FakerPasswords }

\* A faulty variant: credentials drawn afresh on every call instead of read from
\* the configuration.
validCredentialsGenerated == invalidCredentials

\* The `!` of the source is erased at compile time: an unset key yields
\* undefined, nothing is thrown.
validCredentials ==
    { [username |-> ProcessEnv("VALID_USERNAME"),
       password |-> ProcessEnv("VALID_USER_PASSWORD")] }

randomPassword == { JSString(p) : p \in FakerPasswords }

-----------------------------------------------------------------------------
(* The application under test: its login form, as the scenarios observe it *)

LoginURL == "/"
InventoryURL == "/inventory.html"
BlankURL == "about:blank"

MsgNoMatch ==
    "Epic sadface: Username and password do not match any user in this service"
MsgUsernameRequired == "Epic sadface: Username is required"

\* The credentials the application accepts.
AcceptedUsername == DotEnv["VALID_USERNAME"]
AcceptedPassword == DotEnv["VALID_USER_PASSWORD"]

\* A page: its URL, the two form fields and the error banner's text (""
\* when the banner is not rendered).
BlankPage ==
    [url |-> BlankURL, username |-> "", password |-> "", error |-> ""]

\* A page whose scenario is over.
ClosedPage ==
    [url |-> "closed", username |-> "", password |-> "", error |-> ""]

LoginForm ==
    [url |-> LoginURL, username |-> "", password |-> "", error |-> ""]

\* Submitting the form.  The application validates the required fields in
\* order (username, then password: its message for a missing password is
\* the counterpart of the one for a missing username), then matches the
\* credentials.
AppSubmit(pg) ==
    IF pg.username = ""
      THEN [pg EXCEPT !.error = MsgUsernameRequired]
    ELSE IF pg.password = ""
      THEN [pg EXCEPT !.error = "Epic sadface: Password is required"]
    ELSE IF pg.username = AcceptedUsername /\ pg.password = AcceptedPassword
      THEN [url |-> InventoryURL, username |-> "", password |-> "",
            error |-> ""]
    ELSE [pg EXCEPT !.error = MsgNoMatch]

-----------------------------------------------------------------------------
(* The automation engine *)

\* Whether a locator resolves to an element of the page.
Present(pg, target) ==
    IF target = "errorMessage"
      THEN pg.url = LoginURL /\ pg.error # ""
      ELSE pg.url = LoginURL

\* A text entered key by key after what the field holds (Sequences' \o on
\* strings is not evaluated by TLC: the appended text is tagged instead).
Typed(old, text) == IF old = "" THEN text ELSE "appended"

\* A faulty variant: the text is typed into the field, not set.
FillByTyping(pg, target, text) ==
    IF target = "usernameInput"
      THEN [pg EXCEPT !.username = Typed(@, text)]
      ELSE [pg EXCEPT !.password = Typed(@, text)]

\* locator.fill(text): the field's value becomes text.
Fill(pg, target, text) ==
    IF target = "usernameInput"
      THEN [pg EXCEPT !.username = text]
      ELSE [pg EXCEPT !.password = text]

\* The effect of an operation that completes.
Effect(pg, op) ==
    CASE op.kind = "goto" -> LoginForm
      [] op.kind = "fill" -> Fill(pg, op.target, op.text.value)
      [] op.kind = "click" -> AppSubmit(pg)
      [] OTHER -> pg

\* What an operation resolves to when it completes.
Resolved(pg, op) ==
    CASE op.kind = "textContent" -> JSString(pg.error)
      [] op.kind = "isVisible" -> JSBoolean(Present(pg, op.target))
      [] OTHER -> Undefined

\* The ways an operation can settle: "ok", or the class of the error it
\* rejects with.
Settlements(pg, op) ==
    CASE op.kind = "goto" -> {"ok", "TimeoutError"}
      [] op.kind = "isVisible" -> {"ok"}
      [] op.kind = "fill" /\ ~IsString(op.text) -> {"Error"}
      [] OTHER -> IF Present(pg, op.target)
                    THEN {"ok", "TimeoutError"}
                    ELSE {"TimeoutError"}

-----------------------------------------------------------------------------
(* LoginPage *)

NoLoginPage ==
    [page |-> 0, usernameInput |-> 0, passwordInput |-> 0, loginButton |-> 0,
     errorMessage |-> 0]

\* new LoginPage(page): the page and the four locators resolved against it.
NewLoginPage(p) ==
    [page |-> p, usernameInput |-> p, passwordInput |-> p,
     loginButton |-> p, errorMessage |-> p]

Steps == <<"enterUsername", "enterPassword", "clickLoginButton">>

\* No operation settled yet.
NoOp ==
    [method |-> "none", kind |-> "none", page |-> 0, target |-> "none",
     text |-> Undefined]

NoLast ==
    [op |-> NoOp, ok |-> FALSE, present |-> FALSE, before |-> BlankPage,
     after |-> BlankPage, repeat |-> FALSE]

NoFrame ==
    [status |-> "none", u |-> Undefined, p |-> Undefined, ret |-> "none",
     attempts |-> [s \in {Steps[i] : i \in 1..3} |-> 0], failed |-> {},
     error |-> "none"]

\* The engine operation each method of the page object awaits.
navigate(lp) ==
    [method |-> "navigate", kind |-> "goto", page |-> lp.page,
     target |-> "page", text |-> Undefined]

\* A faulty variant: the username goes to the password field's locator.
enterUsernameIntoPassword(lp, username) ==
    [method |-> "enterUsername", kind |-> "fill", page |-> lp.passwordInput,
     target |-> "passwordInput", text |-> username]

enterUsername(lp, username) ==
    [method |-> "enterUsername", kind |-> "fill", page |-> lp.usernameInput,
     target |-> "usernameInput", text |-> username]

\* A faulty variant: the password goes to the username field's locator.
enterPasswordIntoUsername(lp, password) ==
    [method |-> "enterPassword", kind |-> "fill", page |-> lp.usernameInput,
     target |-> "usernameInput", text |-> password]

enterPassword(lp, password) ==
    [method |-> "enterPassword", kind |-> "fill", page |-> lp.passwordInput,
     target |-> "passwordInput", text |-> password]

clickLoginButton(lp) ==
    [method |-> "clickLoginButton", kind |-> "click", page |-> lp.loginButton,
     target |-> "loginButton", text |-> Undefined]

getErrorMessage(lp) ==
    [method |-> "getErrorMessage", kind |-> "textContent",
     page |-> lp.errorMessage, target |-> "errorMessage", text |-> Undefined]

isErrorMessageVisible(lp) ==
    [method |-> "isErrorMessageVisible", kind |-> "isVisible",
     page |-> lp.errorMessage, target |-> "errorMessage", text |-> Undefined]

-----------------------------------------------------------------------------
(* async / await *)

\* A faulty variant: the promise is created and not awaited: the caller goes on at
\* once and the operation settles whenever the engine gets to it.
Floating(w, op, resume) ==
    /\ inflight' = [inflight EXCEPT ![w] = @ \cup {[op |-> op, resume |-> "none"]}]
    /\ pc' = [pc EXCEPT ![w] = resume]

\* `await <op>`: the caller is suspended until the operation settles and
\* goes on at `resume`.
Await(w, op, resume) ==
    /\ inflight' = [inflight EXCEPT ![w] = @ \cup {[op |-> op, resume |-> resume]}]
    /\ pc' = [pc EXCEPT ![w] = "await"]

\* A faulty variant: a rejected step is caught inside the page object and the method
\* carries on.
Swallowed(resume) == resume

\* Where control goes when an awaited operation rejects: no try/catch in
\* the page object, the rejection is thrown on to the caller.
Rejected(resume) == "throw"

\* Where a thrown error ends: the scenario is over (the runner reports it),
\* or the direct caller of the API has it in hand.
Caught(w) == IF wtest[w] = "client" THEN "ready" ELSE "finished"

\* The engine settles one operation of worker w.
Settle(w) ==
    \E e \in inflight[w] :
      \E s \in Settlements(pages[e.op.page], e.op) :
        LET pg   == pages[e.op.page]
            ok   == s = "ok"
            post == IF ok THEN Effect(pg, e.op) ELSE pg
            to   == IF ok THEN e.resume ELSE Rejected(e.resume)
            inLogin == frame[w].status = "running"
                         /\ e.op.method \in DOMAIN frame[w].attempts
        IN
        /\ inflight' = [inflight EXCEPT ![w] = @ \ {e}]
        /\ pages' = [pages EXCEPT ![e.op.page] = post]
        /\ last' = [last EXCEPT ![w] =
                      [op |-> e.op, ok |-> ok, present |-> Present(pg, e.op.target),
                       before |-> pg, after |-> post,
                       repeat |-> last[w].ok /\ last[w].op = e.op]]
        /\ ret' = [ret EXCEPT ![w] = IF ok THEN Resolved(pg, e.op) ELSE @]
        /\ IF e.resume = "none"
             THEN UNCHANGED <<pc, outcome, frame>>
             ELSE /\ pc' = [pc EXCEPT ![w] = IF to = "throw" THEN Caught(w) ELSE to]
                  /\ outcome' = [outcome EXCEPT ![w] =
                                   IF to = "throw" THEN s
                                   ELSE IF to = "ready" THEN "ok" ELSE @]
                  /\ frame' = [frame EXCEPT ![w] =
                        IF ~inLogin THEN @
                        ELSE [@ EXCEPT
                                !.failed = IF ok THEN @ ELSE @ \cup {e.op.method},
                                !.error  = IF ok THEN @ ELSE s,
                                !.status = IF to = "throw" THEN "threw" ELSE @]]
        /\ UNCHANGED <<env, nextPage, loginPage, wtest, wpage, validLog>>

-----------------------------------------------------------------------------
(* LoginPage.login(username, password) *)

\* A faulty variant: login hands its two parameters on in the wrong order.
CallLoginSwapped(w, username, password, return) ==
    /\ frame' = [frame EXCEPT ![w] =
                   [NoFrame EXCEPT !.status = "running", !.u = password,
                                   !.p = username, !.ret = return]]
    /\ pc' = [pc EXCEPT ![w] = "login.enterUsername"]

CallLogin(w, username, password, return) ==
    /\ frame' = [frame EXCEPT ![w] =
                   [NoFrame EXCEPT !.status = "running", !.u = username,
                                   !.p = password, !.ret = return]]
    /\ pc' = [pc EXCEPT ![w] = "login.enterUsername"]

Attempt(w, step) ==
    frame' = [frame EXCEPT ![w].attempts[step] = @ + 1]

\* await this.enterUsername(username);
LoginEnterUsername(w) ==
    /\ pc[w] = "login.enterUsername"
    /\ Attempt(w, "enterUsername")
    /\ Await(w, enterUsername(loginPage[w], frame[w].u), "login.enterPassword")
    /\ UNCHANGED <<env, pages, nextPage, loginPage, wtest, wpage, ret, outcome,
                   validLog, last>>

\* await this.enterPassword(password);
LoginEnterPassword(w) ==
    /\ pc[w] = "login.enterPassword"
    /\ Attempt(w, "enterPassword")
    /\ Await(w, enterPassword(loginPage[w], frame[w].p), "login.clickLoginButton")
    /\ UNCHANGED <<env, pages, nextPage, loginPage, wtest, wpage, ret, outcome,
                   validLog, last>>

\* await this.clickLoginButton();
LoginClickLoginButton(w) ==
    /\ pc[w] = "login.clickLoginButton"
    /\ Attempt(w, "clickLoginButton")
    /\ Await(w, clickLoginButton(loginPage[w]), "login.return")
    /\ UNCHANGED <<env, pages, nextPage, loginPage, wtest, wpage, ret, outcome,
                   validLog, last>>

\* login's promise resolves; the caller goes on.
LoginReturn(w) ==
    /\ pc[w] = "login.return"
    /\ frame' = [frame EXCEPT ![w].status = "returned"]
    /\ pc' = [pc EXCEPT ![w] = frame[w].ret]
    /\ outcome' = [outcome EXCEPT ![w] = IF wtest[w] = "client" THEN "ok" ELSE @]
    /\ UNCHANGED <<env, pages, nextPage, loginPage, wtest, wpage, inflight, ret,
                   validLog, last>>

Login(w) ==
    \/ LoginEnterUsername(w)
    \/ LoginEnterPassword(w)
    \/ LoginClickLoginButton(w)
    \/ LoginReturn(w)

-----------------------------------------------------------------------------
(* login.spec.ts as the runner executes it.  A worker runs one scenario at *)
(* a time: beforeEach with a fresh page, then the test body.               *)

Tests == {"valid", "invalidUsername", "invalidPassword", "empty"}

\* A faulty variant: one message pasted into every error scenario.
ExpectedMessagePasted(t) == MsgNoMatch

\* The message each error scenario expects.
ExpectedMessage(t) == IF t = "empty" THEN MsgUsernameRequired ELSE MsgNoMatch

\* The runner hands a fresh page to the next scenario of worker w.
StartTest(w, t) ==
    /\ pc[w] = "idle"
    /\ nextPage <= MaxPages
    /\ wtest' = [wtest EXCEPT ![w] = t]
    /\ wpage' = [wpage EXCEPT ![w] = nextPage]
    /\ nextPage' = nextPage + 1
    /\ outcome' = [outcome EXCEPT ![w] = "running"]
    /\ pc' = [pc EXCEPT ![w] = "beforeEach"]
    /\ UNCHANGED <<env, pages, loginPage, frame, inflight, ret, validLog, last>>

\* A faulty variant: the page object is built once and kept for the
\* scenarios that follow.
BeforeEachKeeping(w) ==
    /\ pc[w] = "beforeEach"
    /\ loginPage' = [loginPage EXCEPT ![w] =
                       IF @ = NoLoginPage THEN NewLoginPage(wpage[w]) ELSE @]
    /\ Await(w, navigate(loginPage'[w]), "body")
    /\ UNCHANGED <<env, pages, nextPage, wtest, wpage, frame, ret, outcome,
                   validLog, last>>

\* loginPage = new LoginPage(page); await loginPage.navigate();
BeforeEach(w) ==
    /\ pc[w] = "beforeEach"
    /\ loginPage' = [loginPage EXCEPT ![w] = NewLoginPage(wpage[w])]
    /\ Await(w, navigate(loginPage'[w]), "body")
    /\ UNCHANGED <<env, pages, nextPage, wtest, wpage, frame, ret, outcome,
                   validLog, last>>

\* 'should successfully login with valid credentials'
TestValid(w) ==
    /\ pc[w] = "body" /\ wtest[w] = "valid"
    /\ \E c \in validCredentials :
         /\ validLog' = Append(validLog, c)
         /\ CallLogin(w, c.username, c.password, "expectURL")
    /\ UNCHANGED <<env, pages, nextPage, loginPage, wtest, wpage, inflight, ret,
                   outcome, last>>

\* 'should display error with invalid username'
TestInvalidUsername(w) ==
    /\ pc[w] = "body" /\ wtest[w] = "invalidUsername"
    /\ \E c \in validCredentials, i \in invalidCredentials :
         /\ validLog' = Append(validLog, c)
         /\ CallLogin(w, i.username, c.password, "expectVisible")
    /\ UNCHANGED <<env, pages, nextPage, loginPage, wtest, wpage, inflight, ret,
                   outcome, last>>

\* 'should display error with invalid password'
TestInvalidPassword(w) ==
    /\ pc[w] = "body" /\ wtest[w] = "invalidPassword"
    /\ \E c \in validCredentials, i \in invalidCredentials :
         /\ validLog' = Append(validLog, c)
         /\ CallLogin(w, c.username, i.password, "expectVisible")
    /\ UNCHANGED <<env, pages, nextPage, loginPage, wtest, wpage, inflight, ret,
                   outcome, last>>

\* 'should display error with empty credentials'
TestEmpty(w) ==
    /\ pc[w] = "body" /\ wtest[w] = "empty"
    /\ Await(w, clickLoginButton(loginPage[w]), "expectVisible")
    /\ UNCHANGED <<env, pages, nextPage, loginPage, wtest, wpage, frame, ret,
                   outcome, validLog, last>>

\* await expect(page).toHaveURL("/inventory.html");
ExpectURL(w) ==
    /\ pc[w] = "expectURL"
    /\ outcome' = [outcome EXCEPT ![w] =
                     IF pages[wpage[w]].url = InventoryURL
                       THEN "passed" ELSE "AssertionError"]
    /\ pc' = [pc EXCEPT ![w] = "finished"]
    /\ UNCHANGED <<env, pages, nextPage, loginPage, wtest, wpage, frame, inflight,
                   ret, validLog, last>>

\* expect(await loginPage.isErrorMessageVisible())...
ExpectVisible(w) ==
    /\ pc[w] = "expectVisible"
    /\ Await(w, isErrorMessageVisible(loginPage[w]), "checkVisible")
    /\ UNCHANGED <<env, pages, nextPage, loginPage, wtest, wpage, frame, ret,
                   outcome, validLog, last>>

\* ....toBeTruthy(); const errorMessage = await loginPage.getErrorMessage();
CheckVisible(w) ==
    /\ pc[w] = "checkVisible"
    /\ IF ret[w] = JSBoolean(TRUE)
         THEN /\ Await(w, getErrorMessage(loginPage[w]), "checkMessage")
              /\ UNCHANGED outcome
         ELSE /\ outcome' = [outcome EXCEPT ![w] = "AssertionError"]
              /\ pc' = [pc EXCEPT ![w] = "finished"]
              /\ UNCHANGED inflight
    /\ UNCHANGED <<env, pages, nextPage, loginPage, wtest, wpage, frame, ret,
                   validLog, last>>

\* expect(errorMessage).toBe('Epic sadface: ...');
CheckMessage(w) ==
    /\ pc[w] = "checkMessage"
    /\ outcome' = [outcome EXCEPT ![w] =
                     IF ret[w] = JSString(ExpectedMessage(wtest[w]))
                       THEN "passed" ELSE "AssertionError"]
    /\ pc' = [pc EXCEPT ![w] = "finished"]
    /\ UNCHANGED <<env, pages, nextPage, loginPage, wtest, wpage, frame, inflight,
                   ret, validLog, last>>

\* The scenario is reported; its page is gone with it and the worker is
\* free for the next one.
FinishTest(w) ==
    /\ pc[w] = "finished"
    /\ pc' = [pc EXCEPT ![w] = "idle"]
    /\ wtest' = [wtest EXCEPT ![w] = "none"]
    /\ wpage' = [wpage EXCEPT ![w] = 0]
    /\ outcome' = [outcome EXCEPT ![w] = "none"]
    /\ frame' = [frame EXCEPT ![w] = NoFrame]
    /\ ret' = [ret EXCEPT ![w] = Undefined]
    /\ last' = [last EXCEPT ![w] = NoLast]
    /\ pages' = [pages EXCEPT ![wpage[w]] = ClosedPage]
    /\ UNCHANGED <<env, nextPage, loginPage, inflight, validLog>>

Init ==
    /\ env \in { [k \in D |-> DotEnv[k]] : D \in SUBSET EnvKeys }
    /\ pages = [p \in PageIds |-> BlankPage]
    /\ nextPage = 1
    /\ loginPage = [w \in Workers |-> NoLoginPage]
    /\ wtest = [w \in Workers |-> "none"]
    /\ wpage = [w \in Workers |-> 0]
    /\ pc = [w \in Workers |-> "idle"]
    /\ frame = [w \in Workers |-> NoFrame]
    /\ inflight = [w \in Workers |-> {}]
    /\ ret = [w \in Workers |-> Undefined]
    /\ outcome = [w \in Workers |-> "none"]
    /\ validLog = <<>>
    /\ last = [w \in Workers |-> NoLast]

Next ==
    \E w \in Workers :
      \/ \E t \in Tests : StartTest(w, t)
      \/ BeforeEach(w)
      \/ TestValid(w)
      \/ TestInvalidUsername(w)
      \/ TestInvalidPassword(w)
      \/ TestEmpty(w)
      \/ Login(w)
      \/ Settle(w)
      \/ ExpectURL(w)
      \/ ExpectVisible(w)
      \/ CheckVisible(w)
      \/ CheckMessage(w)
      \/ FinishTest(w)

Spec == Init /\ [][Next]_vars

-----------------------------------------------------------------------------
(* One LoginPage driven by a sequential caller that may issue any call of  *)
(* the page object, with any argument, in any order, and that goes on      *)
(* after a call that threw.                                                *)

\* Arguments a caller can pass: any string, or what validCredentials()
\* handed it.
UsernameArgs ==
    { JSString(u) : u \in {"", AcceptedUsername} \cup FakerUserNames }
      \cup { c.username : c \in validCredentials }

PasswordArgs ==
    { JSString(p) : p \in {"", AcceptedPassword} \cup FakerPasswords }
      \cup { c.password : c \in validCredentials }

\* The caller starts a call the page object answers with one engine
\* operation: what the previous call left behind is dropped.
NewCall(w) ==
    /\ frame' = [frame EXCEPT ![w] = NoFrame]
    /\ ret' = [ret EXCEPT ![w] = Undefined]
    /\ outcome' = [outcome EXCEPT ![w] = "pending"]

ClientNavigate(w) ==
    /\ pc[w] = "ready"
    /\ Await(w, navigate(loginPage[w]), "ready")
    /\ NewCall(w)
    /\ UNCHANGED <<env, pages, nextPage, loginPage, wtest, wpage, validLog,
                   last>>

ClientEnterUsername(w) ==
    /\ pc[w] = "ready"
    /\ \E u \in UsernameArgs : Await(w, enterUsername(loginPage[w], u), "ready")
    /\ NewCall(w)
    /\ UNCHANGED <<env, pages, nextPage, loginPage, wtest, wpage, validLog,
                   last>>

ClientEnterPassword(w) ==
    /\ pc[w] = "ready"
    /\ \E p \in PasswordArgs : Await(w, enterPassword(loginPage[w], p), "ready")
    /\ NewCall(w)
    /\ UNCHANGED <<env, pages, nextPage, loginPage, wtest, wpage, validLog,
                   last>>

ClientClickLoginButton(w) ==
    /\ pc[w] = "ready"
    /\ Await(w, clickLoginButton(loginPage[w]), "ready")
    /\ NewCall(w)
    /\ UNCHANGED <<env, pages, nextPage, loginPage, wtest, wpage, validLog,
                   last>>

ClientLogin(w) ==
    /\ pc[w] = "ready"
    /\ \E u \in UsernameArgs, p \in PasswordArgs : CallLogin(w, u, p, "ready")
    /\ ret' = [ret EXCEPT ![w] = Undefined]
    /\ outcome' = [outcome EXCEPT ![w] = "pending"]
    /\ UNCHANGED <<env, pages, nextPage, loginPage, wtest, wpage, inflight,
                   validLog, last>>

ClientGetErrorMessage(w) ==
    /\ pc[w] = "ready"
    /\ Await(w, getErrorMessage(loginPage[w]), "ready")
    /\ NewCall(w)
    /\ UNCHANGED <<env, pages, nextPage, loginPage, wtest, wpage, validLog,
                   last>>

ClientIsErrorMessageVisible(w) ==
    /\ pc[w] = "ready"
    /\ Await(w, isErrorMessageVisible(loginPage[w]), "ready")
    /\ NewCall(w)
    /\ UNCHANGED <<env, pages, nextPage, loginPage, wtest, wpage, validLog,
                   last>>

InitClient ==
    /\ env \in { [k \in D |-> DotEnv[k]] : D \in SUBSET EnvKeys }
    /\ pages = [p \in PageIds |-> BlankPage]
    /\ nextPage = 2
    /\ loginPage = [w \in Workers |->
                      IF w = ClientWorker THEN NewLoginPage(1) ELSE NoLoginPage]
    /\ wtest = [w \in Workers |-> IF w = ClientWorker THEN "client" ELSE "none"]
    /\ wpage = [w \in Workers |-> IF w = ClientWorker THEN 1 ELSE 0]
    /\ pc = [w \in Workers |-> IF w = ClientWorker THEN "ready" ELSE "idle"]
    /\ frame = [w \in Workers |-> NoFrame]
    /\ inflight = [w \in Workers |-> {}]
    /\ ret = [w \in Workers |-> Undefined]
    /\ outcome = [w \in Workers |-> "none"]
    /\ validLog = <<>>
    /\ last = [w \in Workers |-> NoLast]

NextClient ==
    \/ ClientNavigate(ClientWorker)
    \/ ClientEnterUsername(ClientWorker)
    \/ ClientEnterPassword(ClientWorker)
    \/ ClientClickLoginButton(ClientWorker)
    \/ ClientLogin(ClientWorker)
    \/ ClientGetErrorMessage(ClientWorker)
    \/ ClientIsErrorMessageVisible(ClientWorker)
    \/ Login(ClientWorker)
    \/ Settle(ClientWorker)

SpecClient == InitClient /\ [][NextClient]_vars

-----------------------------------------------------------------------------
(* The properties *)

Page(w) == pages[wpage[w]]

\* login(u, p) of worker w has run its three steps and returned.
LoginReturned(w) == frame[w].status = "returned"

\* C1: validCredentials() throws when VALID_USERNAME or VALID_USER_PASSWORD
\* is not set; no record it returns holds an undefined username or password.
C1_NeverReturnsUndefined ==
    \A i \in 1..Len(validLog) :
      IsString(validLog[i].username) /\ IsString(validLog[i].password)

WrongUsernameLogin(w) ==
    /\ LoginReturned(w) /\ ConfigPresent
    /\ frame[w].p = ProcessEnv("VALID_USER_PASSWORD")
    /\ IsString(frame[w].u)
    /\ frame[w].u # ProcessEnv("VALID_USERNAME")

WrongPasswordLogin(w) ==
    /\ LoginReturned(w) /\ ConfigPresent
    /\ frame[w].u = ProcessEnv("VALID_USERNAME")
    /\ IsString(frame[w].p)
    /\ frame[w].p # ProcessEnv("VALID_USER_PASSWORD")

C5_EmptySubmitUsernameRequired ==
    \A w \in Workers :
      wtest[w] = "empty" =>
        /\ pc[w] = "expectVisible" =>
             /\ last[w].op = clickLoginButton(NewLoginPage(wpage[w]))
             /\ last[w].ok
             /\ last[w].before = LoginForm
             /\ Present(Page(w), "errorMessage")
             /\ Page(w).error = MsgUsernameRequired
             /\ Page(w).url = LoginURL
        /\ pc[w] = "finished" => outcome[w] \in {"passed", "TimeoutError"}

C5_Witness ==
    \E w \in Workers :
      /\ wtest[w] = "empty" /\ pc[w] = "finished" /\ outcome[w] = "passed"
      /\ Page(w).error = MsgUsernameRequired

\* C6: any two calls of validCredentials() within one process lifetime
\* return records with equal username and equal password, whatever ran
\* between them.
C6_ValidCredentialsDeterministic ==
    \A i, j \in 1..Len(validLog) :
      /\ validLog[i].username = validLog[j].username
      /\ validLog[i].password = validLog[j].password

\* Two calls, with page-object work of another scenario between them.
C6_Witness ==
    /\ Len(validLog) >= 2
    /\ pages[1] = ClosedPage

\* C7: a step of login that fails is attempted exactly once, the steps
\* after it are never executed, and its failure is what login's caller
\* observes.
C7_NoCatchNoRetry ==
    \A w \in Workers :
      \A i \in 1..3 :
        Steps[i] \in frame[w].failed =>
          /\ \A j \in 1..3 :
               frame[w].attempts[Steps[j]] = IF j <= i THEN 1 ELSE 0
          /\ frame[w].failed = {Steps[i]}
          /\ frame[w].status = "threw"
          /\ frame[w].error \in {"TimeoutError", "Error"}
          /\ outcome[w] = frame[w].error
          /\ pc[w] = Caught(w)
          /\ inflight[w] = {}

\* The click, the last step, fails after both fills went through.
C7_Witness ==
    \E w \in Workers :
      /\ frame[w].failed = {"clickLoginButton"}
      /\ outcome[w] = "TimeoutError"

PageActions == {"enterUsername", "enterPassword", "clickLoginButton"}

\* The same page-object action has just been performed a second time in a
\* row, the first having completed.
Repeated(w) == last[w].repeat /\ last[w].op.method \in PageActions

\* C8 (as stated): an action performed twice in a row finds its element the
\* second time too and leaves the page as performing it once did.
C8_EveryActionIdempotent ==
    \A w \in Workers :
      Repeated(w) =>
        /\ last[w].present
        /\ last[w].ok => last[w].after = last[w].before

\* C8 (amended): enterUsername(x) and enterPassword(p) are idempotent, and
\* so is clickLoginButton() as long as the first click left the page on
\* the login URL; after a click that logged in, the button is gone and a
\* second click can only time out.
C8_IdempotentOnLoginForm ==
    \A w \in Workers :
      Repeated(w) =>
        /\ last[w].op.kind = "fill" => last[w].before.url = LoginURL
        /\ last[w].before.url = LoginURL =>
             /\ last[w].present
             /\ last[w].ok => last[w].after = last[w].before
        /\ last[w].before.url # LoginURL =>
             /\ last[w].before.url = InventoryURL
             /\ last[w].op.kind = "click"
             /\ ~last[w].ok

C8_Witness ==
    \E w \in Workers :
      /\ Repeated(w) /\ last[w].ok
      /\ last[w].op.kind = "fill" /\ last[w].op.text # JSString("")
      /\ last[w].after = last[w].before

\* C9: the actions of one test never overlap; navigate() has completed
\* before any fill or click begins; inside login(u, p) the username is in
\* its field before the password fill begins and both are in their fields
\* when the click is dispatched, so the click submits exactly u and p.
C9_SequentialActions ==
    \A w \in Workers :
      /\ Cardinality(inflight[w]) <= 1
      /\ inflight[w] # {} => pc[w] = "await"
      /\ \A e \in inflight[w] :
           /\ e.op.kind \in {"fill", "click"} => pages[e.op.page].url # BlankURL
           /\ (frame[w].status = "running" /\ e.op.method = "enterPassword")
                => JSString(pages[e.op.page].username) = frame[w].u
           /\ (frame[w].status = "running" /\ e.op.method = "clickLoginButton")
                => /\ JSString(pages[e.op.page].username) = frame[w].u
                   /\ JSString(pages[e.op.page].password) = frame[w].p
      /\ (frame[w].status \in {"running", "returned"}
            /\ last[w].op.method = "clickLoginButton" /\ last[w].ok)
           => /\ JSString(last[w].before.username) = frame[w].u
              /\ JSString(last[w].before.password) = frame[w].p

C9_Witness ==
    \E w \in Workers :
      /\ frame[w].status = "returned"
      /\ last[w].op.method = "clickLoginButton" /\ last[w].ok
      /\ last[w].before.username \in FakerUserNames
      /\ last[w].before.password = AcceptedPassword

\* C10: every operation a test issues through loginPage acts on the page
\* handed to that test, no two running tests share a page, and the four
\* locators of a LoginPage are those of the page it was constructed with.
C10_TestIsolation ==
    \A w \in Workers :
      /\ \A e \in inflight[w] : e.op.page = wpage[w]
      /\ loginPage[w] = NewLoginPage(loginPage[w].page)
      /\ pc[w] \notin {"idle", "beforeEach"} => loginPage[w].page = wpage[w]
      /\ \A v \in Workers \ {w} : wpage[w] # 0 => wpage[v] # wpage[w]

\* A worker in its second scenario (the other one has not run any), an
\* operation of the page object in flight.
C10_Witness ==
    \E w \in Workers :
      /\ \A v \in Workers \ {w} : loginPage[v] = NoLoginPage
      /\ wpage[w] = 2 /\ pages[1] = ClosedPage
      /\ \E e \in inflight[w] : e.op.kind = "click"

====
